---- MODULE Spec2Model ----
(***************************************************************************)
(* Model of the gesture recognition and arbitration engine of Hand-Tetris  *)
(* (src/hand-control.js, class HandControl) with the host callbacks of     *)
(* src/game.js.                                                            *)
(*                                                                         *)
(* Conventions                                                             *)
(*  - Coordinates and visibilities are integers in hundredths of the       *)
(*    normalised unit (0.12 is 12, 0.6 is 60).  A variance is kept as the  *)
(*    exact fraction num/den in squared hundredths, and compared with its  *)
(*    threshold by cross multiplication.                                   *)
(*  - Time is Date.now() in milliseconds.  One frame reads one value of    *)
(*    the clock.                                                          *)
(*  - A landmark that is absent has present = FALSE.                       *)
(*  - The timestamp stored with each window entry is never read by the     *)
(*    code and is left out of the window entries.                          *)
(*  - Drawing, logging, lastSuccessfulDetection and the calibration        *)
(*    banner fields only feed the canvas and are left out.                 *)
(***************************************************************************)
EXTENDS Integers, Sequences, FiniteSets, TLC

(***************************************************************************)
(* Program constants (constructor of HandControl).                         *)
(***************************************************************************)
handRaiseThreshold == 12
bothHandsVisibilityThreshold == 60
handStabilityThreshold == 100
handStabilityFrames == 5
actionCooldown == 150
handHistorySize == 10
maxCalibrationFrames == 30
headHistorySize == 20
varianceThreshold == 10
rangeThreshold == 8
requiredShakeFrames == 12
fastDropTriggerDelay == 500
fastDropInterval == 80
continuousMoveThreshold == 800
continuousMoveInterval == 120
maxFailureCount == 30
detectionHistorySize == 10
debugFramePeriod == 30
frameMarginLow == 5
frameMarginHigh == 95

(***************************************************************************)
(* Bounds of the model.                                                    *)
(***************************************************************************)
\* Date.now() at construction; any value above every threshold behaves alike
StartTime == 1000
\* the clock is not advanced past StartTime + HandsTime, StartTime + DropTime
\* or StartTime + CalibrationTime, by specification
HandsTime == 1500
DropTime == 2940
CalibrationTime == 1110
\* fast drop: the environment stays as it is until this long after the start
DropQuiet == 1950
\* held hands: the clock runs this long, the hands move at most HoldMoves times
HoldTime == 1260
HoldMoves == 3
\* single-hand moves: the clock runs this long, with at most MoveChanges
\* changes of pose
MovesTime == 1500
MoveChanges == 1
\* camera pause: the clock runs this long, the person leaves or returns at
\* most PauseMoves times and a button is pressed at most PauseClicks times
PauseTime == 1890
PauseMoves == 2
PauseClicks == 1
\* the time between two frames (a 30 Hz camera)
FramePeriod == 30
\* the person changes pose, a button is pressed, the game spawns a piece or
\* reports one placed, or the camera is restarted: at most this many times
MaxMoves == 2
\* the same, while the fast drop is followed
DropMoves == 1
\* piece identifiers handed out by the game are 1..MaxPieces
MaxPieces == 3
\* a deferred lastAction clear runs at most this long after it is due
MaxTimerLag == 60

(***************************************************************************)
(* Sequences and arithmetic helpers.                                       *)
(***************************************************************************)
RECURSIVE SumTo(_, _)
SumTo(s, i) == IF i = 0 THEN 0 ELSE s[i] + SumTo(s, i - 1)
SumSeq(s) == SumTo(s, Len(s))

RECURSIVE SumSqTo(_, _)
SumSqTo(s, i) == IF i = 0 THEN 0 ELSE s[i] * s[i] + SumSqTo(s, i - 1)

Min2(a, b) == IF a < b THEN a ELSE b

Max2(a, b) == IF a > b THEN a ELSE b

RECURSIVE MinTo(_, _)
MinTo(s, i) == IF i = 1 THEN s[1] ELSE Min2(s[i], MinTo(s, i - 1))
\* Math.min(...values), of a non-empty list
MinSeq(s) == MinTo(s, Len(s))

RECURSIVE MaxTo(_, _)
MaxTo(s, i) == IF i = 1 THEN s[1] ELSE Max2(s[i], MaxTo(s, i - 1))
\* Math.max(...values), of a non-empty list
MaxSeq(s) == MaxTo(s, Len(s))

\* a push that makes room by dropping the newest entry
PushBoundedNewest(s, e, cap) ==
    IF Len(s) >= cap THEN Append(SubSeq(s, 1, cap - 1), e) ELSE Append(s, e)

\* Array.push followed by shift() when the length exceeds the capacity
PushBounded(s, e, cap) ==
    LET t == Append(s, e) IN IF Len(t) > cap THEN Tail(t) ELSE t

\* Array.slice(-n)
LastN(s, n) == IF Len(s) <= n THEN s ELSE SubSeq(s, Len(s) - n + 1, Len(s))

\* the variance of values as the fraction num/den (den = 0 never occurs:
\* the empty list yields 0/1)
calculateVariance(values) ==
    LET n == Len(values)
        sum == SumSeq(values)
        sq == SumSqTo(values, n)
    IN IF n = 0 THEN [num |-> 0, den |-> 1]
       ELSE [num |-> n * sq - sum * sum, den |-> n * n]

\* variance < c and variance > c for a threshold c in squared hundredths
VarLess(v, c) == v.num < c * v.den
VarGreater(v, c) == v.num > c * v.den

(***************************************************************************)
(* Landmark samples.                                                       *)
(***************************************************************************)
Pt(x, y, vis) == [present |-> TRUE, x |-> x, y |-> y, z |-> 0, visibility |-> vis]
NoPt == [present |-> FALSE, x |-> 0, y |-> 0, z |-> 0, visibility |-> 0]

\* results.poseLandmarks: pose = FALSE is a frame without landmarks
Sample(n, ls, rs, lw, rw) ==
    [pose |-> TRUE, nose |-> n, leftShoulder |-> ls, rightShoulder |-> rs,
     leftWrist |-> lw, rightWrist |-> rw]
NoPose ==
    [pose |-> FALSE, nose |-> NoPt, leftShoulder |-> NoPt, rightShoulder |-> NoPt,
     leftWrist |-> NoPt, rightWrist |-> NoPt]

NullBaseline == [null |-> TRUE, x |-> 0, y |-> 0, z |-> 0, d |-> 1]

(***************************************************************************)
(* State.                                                                  *)
(*   hc     the HandControl object (its fields, by name)                   *)
(*   game   the game collaborator as the engine sees it: gameRunning,      *)
(*          currentPiece (0 is null / no piece, else the piece id) and     *)
(*          game.js's isPausedByCamera                                     *)
(*   now    Date.now()                                                     *)
(*   timers the due times of the pending setTimeout lastAction clears      *)
(*   out    what the last step did: the handler that ran, the path it      *)
(*          took, the calls it made on the game and the host callbacks     *)
(*   user   the person in front of the camera: what the next frame shows   *)
(*   obs    history of earlier steps that the properties refer to          *)
(***************************************************************************)
VARIABLES hc, game, now, timers, user, out, obs

vars == <<hc, game, now, timers, user, out, obs>>

\* the fields set by the constructor (lastLeftHandState and lastRightHandState
\* are first assigned by resetCalibration or detectHandGestures)
constructor ==
    [isGestureDetected |-> FALSE,
     lastGestureDetectionStatus |-> FALSE,
     calibrationCompletedNotified |-> FALSE,
     lastAction |-> "",
     lastActionTime |-> 0,
     leftHandState |-> "down",
     rightHandState |-> "down",
     bothHandsVisible |-> FALSE,
     lastBothHandsVisible |-> FALSE,
     lastLeftHandState |-> "undefined",
     lastRightHandState |-> "undefined",
     leftHandHistory |-> <<>>,
     rightHandHistory |-> <<>>,
     baselineLeftShoulder |-> NullBaseline,
     baselineRightShoulder |-> NullBaseline,
     baselineNose |-> NullBaseline,
     calibrationFrames |-> 0,
     headHistory |-> <<>>,
     isHeadShaking |-> FALSE,
     consecutiveShakeFrames |-> 0,
     fastDropStartTime |-> 0,
     lastFastDropTime |-> 0,
     isFastDropTriggered |-> FALSE,
     currentPieceId |-> 0,
     fastDropPieceId |-> 0,
     continuousMoveStartTime |-> 0,
     lastContinuousMoveTime |-> 0,
     isInContinuousMode |-> FALSE,
     poseDetectionFailureCount |-> 0,
     recentDetectionHistory |-> <<>>,
     frameCounter |-> 0]

\* a reset that forgets the head and hand windows
resetCalibrationKeepWindows(h) ==
    [h EXCEPT !.calibrationFrames = 0,
              !.baselineLeftShoulder = NullBaseline,
              !.baselineRightShoulder = NullBaseline,
              !.baselineNose = NullBaseline,
              !.leftHandState = "down",
              !.rightHandState = "down",
              !.bothHandsVisible = FALSE,
              !.lastBothHandsVisible = FALSE,
              !.lastLeftHandState = "down",
              !.lastRightHandState = "down",
              !.continuousMoveStartTime = 0,
              !.isInContinuousMode = FALSE,
              !.isFastDropTriggered = FALSE,
              !.fastDropStartTime = 0,
              !.currentPieceId = 0,
              !.fastDropPieceId = 0,
              !.lastAction = "",
              !.lastActionTime = 0,
              !.isHeadShaking = FALSE,
              !.consecutiveShakeFrames = 0,
              !.isGestureDetected = FALSE,
              !.lastGestureDetectionStatus = FALSE,
              !.calibrationCompletedNotified = FALSE,
              !.poseDetectionFailureCount = 0,
              !.recentDetectionHistory = <<>>,
              !.frameCounter = 0]

\* resetCalibration: every field it assigns
resetCalibration(h) ==
    [h EXCEPT !.calibrationFrames = 0,
              !.baselineLeftShoulder = NullBaseline,
              !.baselineRightShoulder = NullBaseline,
              !.baselineNose = NullBaseline,
              !.leftHandState = "down",
              !.rightHandState = "down",
              !.bothHandsVisible = FALSE,
              !.lastBothHandsVisible = FALSE,
              !.lastLeftHandState = "down",
              !.lastRightHandState = "down",
              !.continuousMoveStartTime = 0,
              !.isInContinuousMode = FALSE,
              !.isFastDropTriggered = FALSE,
              !.fastDropStartTime = 0,
              !.currentPieceId = 0,
              !.fastDropPieceId = 0,
              !.lastAction = "",
              !.lastActionTime = 0,
              !.headHistory = <<>>,
              !.isHeadShaking = FALSE,
              !.consecutiveShakeFrames = 0,
              !.leftHandHistory = <<>>,
              !.rightHandHistory = <<>>,
              !.isGestureDetected = FALSE,
              !.lastGestureDetectionStatus = FALSE,
              !.calibrationCompletedNotified = FALSE,
              !.poseDetectionFailureCount = 0,
              !.recentDetectionHistory = <<>>,
              !.frameCounter = 0]

\* resetDropSpeed
resetDropSpeed(h) ==
    [h EXCEPT !.isFastDropTriggered = FALSE,
              !.fastDropPieceId = 0,
              !.fastDropStartTime = 0]

(***************************************************************************)
(* Calibration.                                                            *)
(***************************************************************************)
\* baseline += landmark, creating the zero baseline first when it is null
Accumulate(b, p) ==
    [null |-> FALSE, x |-> b.x + p.x, y |-> b.y + p.y, z |-> b.z + p.z, d |-> b.d]

\* baseline /= maxCalibrationFrames, kept as the fraction x/d
Divide(b) == [b EXCEPT !.d = b.d * maxCalibrationFrames]

\* a calibration that completes on each of its last two frames
calibrateBaselineTwice(h, lm) ==
    IF ~lm.leftShoulder.present \/ ~lm.rightShoulder.present \/ ~lm.nose.present
    THEN [h |-> h, cb |-> FALSE]
    ELSE LET ls == Accumulate(h.baselineLeftShoulder, lm.leftShoulder)
             rs == Accumulate(h.baselineRightShoulder, lm.rightShoulder)
             ns == Accumulate(h.baselineNose, lm.nose)
             last == h.calibrationFrames >= maxCalibrationFrames - 2
         IN [h |-> [h EXCEPT
                      !.baselineLeftShoulder = IF last THEN Divide(ls) ELSE ls,
                      !.baselineRightShoulder = IF last THEN Divide(rs) ELSE rs,
                      !.baselineNose = IF last THEN Divide(ns) ELSE ns,
                      !.calibrationCompletedNotified =
                          IF last THEN TRUE ELSE h.calibrationCompletedNotified],
             cb |-> last]

\* calibrateBaseline: cb is TRUE when onCalibrationComplete is invoked
calibrateBaseline(h, lm) ==
    IF ~lm.leftShoulder.present \/ ~lm.rightShoulder.present \/ ~lm.nose.present
    THEN [h |-> h, cb |-> FALSE]
    ELSE LET ls == Accumulate(h.baselineLeftShoulder, lm.leftShoulder)
             rs == Accumulate(h.baselineRightShoulder, lm.rightShoulder)
             ns == Accumulate(h.baselineNose, lm.nose)
             last == h.calibrationFrames = maxCalibrationFrames - 1
         IN [h |-> [h EXCEPT
                      !.baselineLeftShoulder = IF last THEN Divide(ls) ELSE ls,
                      !.baselineRightShoulder = IF last THEN Divide(rs) ELSE rs,
                      !.baselineNose = IF last THEN Divide(ns) ELSE ns,
                      !.calibrationCompletedNotified =
                          IF last THEN TRUE ELSE h.calibrationCompletedNotified],
             cb |-> last]

(***************************************************************************)
(* History windows and classifiers.                                        *)
(***************************************************************************)
updateHeadHistory(h, nose) ==
    [h EXCEPT !.headHistory =
        PushBounded(h.headHistory, [x |-> nose.x, y |-> nose.y], headHistorySize)]

updateHandHistory(h, leftWrist, rightWrist) ==
    [h EXCEPT
       !.leftHandHistory =
           PushBounded(h.leftHandHistory, [x |-> leftWrist.x, y |-> leftWrist.y],
                       handHistorySize),
       !.rightHandHistory =
           PushBounded(h.rightHandHistory, [x |-> rightWrist.x, y |-> rightWrist.y],
                       handHistorySize)]

isHandStable(h, hand) ==
    LET history == IF hand = "left" THEN h.leftHandHistory ELSE h.rightHandHistory
        recentFrames == LastN(history, handStabilityFrames)
        xVariance == calculateVariance([i \in 1..Len(recentFrames) |-> recentFrames[i].x])
        yVariance == calculateVariance([i \in 1..Len(recentFrames) |-> recentFrames[i].y])
    IN IF Len(history) < handStabilityFrames THEN FALSE
       ELSE VarLess(xVariance, handStabilityThreshold)
            /\ VarLess(yVariance, handStabilityThreshold)

\* the per-frame shake condition over a full head window
isCurrentFrameShaking(headHistory) ==
    LET xPositions == [i \in 1..Len(headHistory) |-> headHistory[i].x]
        xRange == MaxSeq(xPositions) - MinSeq(xPositions)
        xVariance == calculateVariance(xPositions)
    IN xRange > rangeThreshold /\ VarGreater(xVariance, varianceThreshold)

\* a confirmation that needs one frame more than requiredShakeFrames
detectHeadShakeLate(h) ==
    IF Len(h.headHistory) < headHistorySize
    THEN [h EXCEPT !.isHeadShaking = FALSE, !.consecutiveShakeFrames = 0]
    ELSE LET c == IF isCurrentFrameShaking(h.headHistory)
                  THEN h.consecutiveShakeFrames + 1 ELSE 0
         IN [h EXCEPT !.consecutiveShakeFrames = c,
                      !.isHeadShaking = c > requiredShakeFrames]

detectHeadShake(h) ==
    IF Len(h.headHistory) < headHistorySize
    THEN [h EXCEPT !.isHeadShaking = FALSE, !.consecutiveShakeFrames = 0]
    ELSE LET c == IF isCurrentFrameShaking(h.headHistory)
                  THEN h.consecutiveShakeFrames + 1 ELSE 0
         IN [h EXCEPT !.consecutiveShakeFrames = c,
                      !.isHeadShaking = c >= requiredShakeFrames]

(***************************************************************************)
(* detectHandGestures, in the order of its statements.  g is the game as   *)
(* read during the frame, t the frame's Date.now(), mv the outcome of      *)
(* tetrisGame.movePiece(0, 1) should the frame call it: "true", "false"    *)
(* or "throw".                                                             *)
(***************************************************************************)
MoveResults == {"true", "false", "throw"}

\* all five landmarks the gesture code reads are present
hasKeyLandmarks(lm) ==
    /\ lm.leftWrist.present /\ lm.rightWrist.present
    /\ lm.leftShoulder.present /\ lm.rightShoulder.present /\ lm.nose.present

isHandVisible(w) ==
    /\ w.visibility > bothHandsVisibilityThreshold
    /\ w.x > frameMarginLow /\ w.x < frameMarginHigh
    /\ w.y > frameMarginLow /\ w.y < frameMarginHigh

isHandUp(shoulder, wrist) == shoulder.y - wrist.y > handRaiseThreshold

\* shouldRotate: both hands visible and both raised
shouldRotate(lm) ==
    /\ isHandVisible(lm.leftWrist) /\ isHandVisible(lm.rightWrist)
    /\ isHandUp(lm.leftShoulder, lm.leftWrist)
    /\ isHandUp(lm.rightShoulder, lm.rightWrist)

\* executeAction without the gameRunning check
executeActionAlways(action, g) == <<action>>

\* executeAction: the calls made on the game
executeAction(action, g) == IF ~g.gameRunning THEN <<>> ELSE <<action>>

\* piece tracking that keeps the start timestamp of the shake
trackPieceKeepStart(h, g) ==
    IF g.currentPiece # 0 /\ h.currentPieceId # g.currentPiece
    THEN LET oldPieceId == h.currentPieceId
             h1 == [h EXCEPT !.currentPieceId = g.currentPiece]
         IN IF h.isFastDropTriggered /\ h.fastDropPieceId = oldPieceId
            THEN [h1 EXCEPT !.isFastDropTriggered = FALSE,
                            !.fastDropPieceId = 0]
            ELSE h1
    ELSE h

\* piece tracking: a new piece id clears a fast drop bound to the old one
trackPiece(h, g) ==
    IF g.currentPiece # 0 /\ h.currentPieceId # g.currentPiece
    THEN LET oldPieceId == h.currentPieceId
             h1 == [h EXCEPT !.currentPieceId = g.currentPiece]
         IN IF h.isFastDropTriggered /\ h.fastDropPieceId = oldPieceId
            THEN [h1 EXCEPT !.isFastDropTriggered = FALSE,
                            !.fastDropPieceId = 0,
                            !.fastDropStartTime = 0]
            ELSE h1
    ELSE h

\* arming without the trigger delay
updateFastDropAtOnce(h, t, g) ==
    IF h.isHeadShaking
    THEN IF ~h.isFastDropTriggered
         THEN IF h.fastDropStartTime = 0
              THEN [h EXCEPT !.fastDropStartTime = t]
              ELSE IF /\ g.currentPiece # 0
                      /\ g.currentPiece # h.fastDropPieceId
                   THEN [h EXCEPT !.isFastDropTriggered = TRUE,
                                  !.fastDropPieceId = g.currentPiece,
                                  !.lastFastDropTime = 0]
                   ELSE h
         ELSE h
    ELSE LET h1 == IF h.fastDropStartTime > 0 \/ h.isFastDropTriggered
                   THEN [h EXCEPT !.isFastDropTriggered = FALSE,
                                  !.fastDropPieceId = 0]
                   ELSE h
         IN [h1 EXCEPT !.fastDropStartTime = 0]

\* a controller that stays armed when the shaking stops
updateFastDropLatched(h, t, g) ==
    IF h.isHeadShaking
    THEN IF ~h.isFastDropTriggered
         THEN IF h.fastDropStartTime = 0
              THEN [h EXCEPT !.fastDropStartTime = t]
              ELSE IF /\ t - h.fastDropStartTime >= fastDropTriggerDelay
                      /\ g.currentPiece # 0
                      /\ g.currentPiece # h.fastDropPieceId
                   THEN [h EXCEPT !.isFastDropTriggered = TRUE,
                                  !.fastDropPieceId = g.currentPiece,
                                  !.lastFastDropTime = 0]
                   ELSE h
         ELSE h
    ELSE [h EXCEPT !.fastDropStartTime = 0]

\* arming after twice the trigger delay
updateFastDropSlow(h, t, g) ==
    IF h.isHeadShaking
    THEN IF ~h.isFastDropTriggered
         THEN IF h.fastDropStartTime = 0
              THEN [h EXCEPT !.fastDropStartTime = t]
              ELSE IF /\ t - h.fastDropStartTime >= 2 * fastDropTriggerDelay
                      /\ g.currentPiece # 0
                      /\ g.currentPiece # h.fastDropPieceId
                   THEN [h EXCEPT !.isFastDropTriggered = TRUE,
                                  !.fastDropPieceId = g.currentPiece,
                                  !.lastFastDropTime = 0]
                   ELSE h
         ELSE h
    ELSE LET h1 == IF h.fastDropStartTime > 0 \/ h.isFastDropTriggered
                   THEN [h EXCEPT !.isFastDropTriggered = FALSE,
                                  !.fastDropPieceId = 0]
                   ELSE h
         IN [h1 EXCEPT !.fastDropStartTime = 0]

\* head shake -> fast drop timing and arming
updateFastDrop(h, t, g) ==
    IF h.isHeadShaking
    THEN IF ~h.isFastDropTriggered
         THEN IF h.fastDropStartTime = 0
              THEN [h EXCEPT !.fastDropStartTime = t]
              ELSE IF /\ t - h.fastDropStartTime >= fastDropTriggerDelay
                      /\ g.currentPiece # 0
                      /\ g.currentPiece # h.fastDropPieceId
                   THEN [h EXCEPT !.isFastDropTriggered = TRUE,
                                  !.fastDropPieceId = g.currentPiece,
                                  !.lastFastDropTime = 0]
                   ELSE h
         ELSE h
    ELSE LET h1 == IF h.fastDropStartTime > 0 \/ h.isFastDropTriggered
                   THEN [h EXCEPT !.isFastDropTriggered = FALSE,
                                  !.fastDropPieceId = 0]
                   ELSE h
         IN [h1 EXCEPT !.fastDropStartTime = 0]

\* the controller as the fast drop step finds it
StepOf(h) ==
    [armed |-> h.isFastDropTriggered, bound |-> h.fastDropPieceId,
     start |-> h.fastDropStartTime]

\* a frame that does not reach the fast drop step
NoStep == [armed |-> FALSE, bound |-> 0, start |-> 0]

\* a fast drop step that ignores the answer of movePiece
executeFastDropKeepArmed(h, t, g, mv) ==
    IF /\ h.isFastDropTriggered /\ g.gameRunning
       /\ g.currentPiece = h.fastDropPieceId
       /\ t - h.lastFastDropTime >= fastDropInterval
    THEN CASE mv = "throw" ->
                [h |-> h, cmds |-> <<"drop">>, threw |-> TRUE, step |-> StepOf(h)]
           [] OTHER ->
                [h |-> [h EXCEPT !.lastFastDropTime = t],
                 cmds |-> <<"drop">>, threw |-> FALSE, step |-> StepOf(h)]
    ELSE [h |-> h, cmds |-> <<>>, threw |-> FALSE, step |-> StepOf(h)]

\* a fast drop step that disarms on a refused move and keeps the binding
executeFastDropKeepBound(h, t, g, mv) ==
    IF /\ h.isFastDropTriggered /\ g.gameRunning
       /\ g.currentPiece = h.fastDropPieceId
       /\ t - h.lastFastDropTime >= fastDropInterval
    THEN CASE mv = "true" ->
                [h |-> [h EXCEPT !.lastFastDropTime = t],
                 cmds |-> <<"drop">>, threw |-> FALSE, step |-> StepOf(h)]
           [] mv = "false" ->
                [h |-> [h EXCEPT !.isFastDropTriggered = FALSE],
                 cmds |-> <<"drop">>, threw |-> FALSE, step |-> StepOf(h)]
           [] OTHER ->
                [h |-> h, cmds |-> <<"drop">>, threw |-> TRUE, step |-> StepOf(h)]
    ELSE [h |-> h, cmds |-> <<>>, threw |-> FALSE, step |-> StepOf(h)]

\* the fast drop step
executeFastDrop(h, t, g, mv) ==
    IF /\ h.isFastDropTriggered /\ g.gameRunning
       /\ g.currentPiece = h.fastDropPieceId
       /\ t - h.lastFastDropTime >= fastDropInterval
    THEN CASE mv = "true" ->
                [h |-> [h EXCEPT !.lastFastDropTime = t],
                 cmds |-> <<"drop">>, threw |-> FALSE, step |-> StepOf(h)]
           [] mv = "false" ->
                [h |-> [h EXCEPT !.isFastDropTriggered = FALSE,
                                 !.fastDropPieceId = 0],
                 cmds |-> <<"drop">>, threw |-> FALSE, step |-> StepOf(h)]
           [] OTHER ->
                [h |-> h, cmds |-> <<"drop">>, threw |-> TRUE, step |-> StepOf(h)]
    ELSE [h |-> h, cmds |-> <<>>, threw |-> FALSE, step |-> StepOf(h)]

\* variant of detectSingleHand: a newly raised hand moves the piece whatever
\* the other hand does
detectSingleHandAlone(h, rot, t, action) ==
    IF ~rot
    THEN IF h.leftHandState = "up" /\ h.lastLeftHandState # "up"
         THEN [h |-> [h EXCEPT !.continuousMoveStartTime = t,
                               !.isInContinuousMode = FALSE],
               action |-> "left"]
         ELSE IF h.rightHandState = "up" /\ h.lastRightHandState # "up"
              THEN [h |-> [h EXCEPT !.continuousMoveStartTime = t,
                                    !.isInContinuousMode = FALSE],
                    action |-> "right"]
              ELSE [h |-> h, action |-> action]
    ELSE [h |-> h, action |-> action]

\* single hand raised (edge): the move and the start of the hold
detectSingleHand(h, rot, t, action) ==
    IF ~rot
    THEN IF /\ h.leftHandState = "up" /\ h.lastLeftHandState # "up"
            /\ h.rightHandState = "down"
         THEN [h |-> [h EXCEPT !.continuousMoveStartTime = t,
                               !.isInContinuousMode = FALSE],
               action |-> "left"]
         ELSE IF /\ h.rightHandState = "up" /\ h.lastRightHandState # "up"
                 /\ h.leftHandState = "down"
              THEN [h |-> [h EXCEPT !.continuousMoveStartTime = t,
                                    !.isInContinuousMode = FALSE],
                    action |-> "right"]
              ELSE [h |-> h, action |-> action]
    ELSE [h |-> h, action |-> action]

\* one held hand: entering, ticking and leaving continuous mode
holdHand(h, t, action, dir, stable) ==
    LET holdTime == t - h.continuousMoveStartTime
    IN IF holdTime >= continuousMoveThreshold /\ ~h.isInContinuousMode /\ stable
       THEN [h |-> [h EXCEPT !.isInContinuousMode = TRUE,
                             !.lastContinuousMoveTime = t],
             action |-> dir]
       ELSE IF /\ h.isInContinuousMode
               /\ t - h.lastContinuousMoveTime >= continuousMoveInterval
               /\ stable
            THEN [h |-> [h EXCEPT !.lastContinuousMoveTime = t], action |-> dir]
            ELSE IF h.isInContinuousMode /\ ~stable
                 THEN [h |-> [h EXCEPT !.isInContinuousMode = FALSE,
                                       !.continuousMoveStartTime = 0],
                       action |-> action]
                 ELSE [h |-> h, action |-> action]

\* held hand -> continuous movement; sel is [h, action] so far
detectContinuous(sel, rot, t) ==
    IF ~rot
    THEN IF /\ sel.h.leftHandState = "up" /\ sel.h.lastLeftHandState = "up"
            /\ sel.h.rightHandState = "down"
         THEN holdHand(sel.h, t, sel.action, "left", isHandStable(sel.h, "left"))
         ELSE IF /\ sel.h.rightHandState = "up" /\ sel.h.lastRightHandState = "up"
                 /\ sel.h.leftHandState = "down"
              THEN holdHand(sel.h, t, sel.action, "right", isHandStable(sel.h, "right"))
              ELSE IF sel.h.leftHandState = "down" /\ sel.h.rightHandState = "down"
                   THEN [h |-> [sel.h EXCEPT !.continuousMoveStartTime = 0,
                                             !.isInContinuousMode = FALSE],
                         action |-> sel.action]
                   ELSE sel
    ELSE IF sel.h.isInContinuousMode
         THEN [h |-> [sel.h EXCEPT !.isInContinuousMode = FALSE,
                                   !.continuousMoveStartTime = 0],
               action |-> sel.action]
         ELSE sel

\* variant of performAction: the time of the action is not recorded
performActionUntimed(h, t, g, action) ==
    LET isContinuousMove == h.isInContinuousMode
        shouldExecute == action = "rotate" \/ action # h.lastAction \/ isContinuousMove
    IN IF action # "" /\ shouldExecute
       THEN [h |-> IF ~isContinuousMove
                   THEN [h EXCEPT !.lastAction = action]
                   ELSE h,
             cmds |-> executeAction(action, g),
             timer |-> ~isContinuousMove,
             action |-> action, cont |-> isContinuousMove]
       ELSE [h |-> h, cmds |-> <<>>, timer |-> FALSE,
             action |-> action, cont |-> isContinuousMove]

\* executing the selected action: duplicate suppression, cooldown, timer
performAction(h, t, g, action) ==
    LET isContinuousMove == h.isInContinuousMode
        shouldExecute == action = "rotate" \/ action # h.lastAction \/ isContinuousMove
    IN IF action # "" /\ shouldExecute
       THEN [h |-> IF ~isContinuousMove
                   THEN [h EXCEPT !.lastAction = action, !.lastActionTime = t]
                   ELSE h,
             cmds |-> executeAction(action, g),
             timer |-> ~isContinuousMove,
             action |-> action, cont |-> isContinuousMove]
       ELSE [h |-> h, cmds |-> <<>>, timer |-> FALSE,
             action |-> action, cont |-> isContinuousMove]

\* the previous-state fields (lines 723-726)
rememberStates(h) ==
    [h EXCEPT !.lastBothHandsVisible = h.bothHandsVisible,
              !.lastLeftHandState = h.leftHandState,
              !.lastRightHandState = h.rightHandState]

\* the selected action, executed after the previous-state fields are updated
performActionOf(sel, t, g) == performAction(rememberStates(sel.h), t, g, sel.action)

\* what a frame reports besides the new engine state
Report(h, path, cmds, timer, action, cont, step) ==
    [h |-> h, path |-> path, cmds |-> cmds, timer |-> timer,
     action |-> action, cont |-> cont, step |-> step]

\* hand history, hand states and bothHandsVisible (lines 526-555)
classifyHands(h, lm) ==
    [updateHandHistory(h, lm.leftWrist, lm.rightWrist) EXCEPT
       !.leftHandState =
           IF isHandUp(lm.leftShoulder, lm.leftWrist) THEN "up" ELSE "down",
       !.rightHandState =
           IF isHandUp(lm.rightShoulder, lm.rightWrist) THEN "up" ELSE "down",
       !.bothHandsVisible = shouldRotate(lm)]

\* the hand gestures of the frame: rotate on the edge of shouldRotate, else
\* a single hand raised, else a held hand; sel is [h, action]
selectAction(h, rot, bothHandsJustAppeared, t) ==
    detectContinuous(
        detectSingleHand(h, rot, t, IF bothHandsJustAppeared THEN "rotate" ELSE ""),
        rot, t)

\* the frame's report: fd is the fast drop step, pa the executed action
conclude(fd, pa) ==
    Report(pa.h, "full", fd.cmds \o pa.cmds, pa.timer, pa.action, pa.cont, fd.step)

\* after the fast drop step: a throw of movePiece leaves the function through
\* its catch clause, else the hand gestures follow
afterFastDrop(fd, rot, bothHandsJustAppeared, t, g) ==
    IF fd.threw
    THEN Report(fd.h, "threw", fd.cmds, FALSE, "", FALSE, fd.step)
    ELSE conclude(fd, performActionOf(selectAction(fd.h, rot, bothHandsJustAppeared, t),
                                      t, g))

\* the statements after the debug block (line 526 on)
gestureBody(h, lm, t, g, mv) ==
    afterFastDrop(
        executeFastDrop(updateFastDrop(trackPiece(classifyHands(h, lm), g), t, g),
                        t, g, mv),
        shouldRotate(lm), shouldRotate(lm) /\ ~h.bothHandsVisible, t, g)

\* a debug block that reads nothing undeclared: every frame goes on
afterHeadShakeQuiet(h, lm, t, g, mv) == gestureBody(h, lm, t, g, mv)

\* after updateHeadHistory and detectHeadShake: the debug statement reads
\* areBothHandsUp, handHeightDifference, shouldRotate and maxHeightDifference,
\* which are const declarations further down the block: a ReferenceError,
\* caught by the catch clause of the function
afterHeadShake(h, lm, t, g, mv) ==
    IF h.frameCounter % debugFramePeriod = 0
    THEN Report(h, "debugthrow", <<>>, FALSE, "", FALSE, NoStep)
    ELSE gestureBody(h, lm, t, g, mv)

\* a variant whose cooldown stops the hand gestures only: the head window
\* and the shake state are still updated
detectHandGesturesCoolHands(h, lm, t, g, mv) ==
    IF \/ h.baselineLeftShoulder.null \/ h.baselineRightShoulder.null
       \/ h.baselineNose.null
    THEN Report(h, "nobaseline", <<>>, FALSE, "", FALSE, NoStep)
    ELSE IF ~hasKeyLandmarks(lm)
    THEN Report(h, "missing", <<>>, FALSE, "", FALSE, NoStep)
    ELSE IF t - h.lastActionTime < actionCooldown
    THEN Report(detectHeadShake(updateHeadHistory(h, lm.nose)),
                "cooldown", <<>>, FALSE, "", FALSE, NoStep)
    ELSE afterHeadShake(detectHeadShake(updateHeadHistory(h, lm.nose)), lm, t, g, mv)

\* a variant that updates the head window before it looks for the wrists
detectHandGesturesHeadFirst(h, lm, t, g, mv) ==
    IF \/ h.baselineLeftShoulder.null \/ h.baselineRightShoulder.null
       \/ h.baselineNose.null
    THEN Report(h, "nobaseline", <<>>, FALSE, "", FALSE, NoStep)
    ELSE IF t - h.lastActionTime < actionCooldown
    THEN Report(h, "cooldown", <<>>, FALSE, "", FALSE, NoStep)
    ELSE IF ~hasKeyLandmarks(lm)
    THEN Report(IF lm.nose.present
                THEN detectHeadShake(updateHeadHistory(h, lm.nose)) ELSE h,
                "missing", <<>>, FALSE, "", FALSE, NoStep)
    ELSE afterHeadShake(detectHeadShake(updateHeadHistory(h, lm.nose)), lm, t, g, mv)

detectHandGestures(h, lm, t, g, mv) ==
    IF \/ h.baselineLeftShoulder.null \/ h.baselineRightShoulder.null
       \/ h.baselineNose.null
    THEN Report(h, "nobaseline", <<>>, FALSE, "", FALSE, NoStep)
    ELSE IF t - h.lastActionTime < actionCooldown
    THEN Report(h, "cooldown", <<>>, FALSE, "", FALSE, NoStep)
    ELSE IF ~hasKeyLandmarks(lm)
    THEN Report(h, "missing", <<>>, FALSE, "", FALSE, NoStep)
    ELSE afterHeadShake(detectHeadShake(updateHeadHistory(h, lm.nose)), lm, t, g, mv)

(***************************************************************************)
(* The game collaborator and the host callbacks of game.js.  The game      *)
(* itself is known by its interface: start() leaves the game running with  *)
(* a piece in play, pause() leaves it not running.                         *)
(***************************************************************************)
tetrisStart(g) ==
    [g EXCEPT !.gameRunning = TRUE,
              !.currentPiece = IF g.currentPiece = 0 THEN g.lastId + 1 ELSE @,
              !.lastId = IF g.currentPiece = 0 THEN g.lastId + 1 ELSE @]

tetrisPause(g) == [g EXCEPT !.gameRunning = FALSE]

startGameAutomatically(g) ==
    IF g.gameRunning THEN g
    ELSE [tetrisStart(g) EXCEPT !.isPausedByCamera = FALSE]

onCalibrationComplete(g) == startGameAutomatically(g)

\* a callback that resumes whatever paused the game
onGestureStatusChangeCallbackAny(g, isDetected) ==
    IF isDetected
    THEN IF ~g.gameRunning
         THEN [tetrisStart(g) EXCEPT !.isPausedByCamera = FALSE]
         ELSE g
    ELSE IF g.gameRunning /\ ~g.isPausedByCamera
         THEN [tetrisPause(g) EXCEPT !.isPausedByCamera = TRUE]
         ELSE g

onGestureStatusChangeCallback(g, isDetected) ==
    IF isDetected
    THEN IF g.isPausedByCamera
         THEN [tetrisStart(g) EXCEPT !.isPausedByCamera = FALSE]
         ELSE g
    ELSE IF g.gameRunning /\ ~g.isPausedByCamera
         THEN [tetrisPause(g) EXCEPT !.isPausedByCamera = TRUE]
         ELSE g

(***************************************************************************)
(* onResults.                                                              *)
(***************************************************************************)
CountTrue(s) == Cardinality({i \in 1..Len(s) : s[i]})

\* the status-changed check at the end of a frame
notifyStatus(h) ==
    IF h.isGestureDetected # h.lastGestureDetectionStatus
    THEN [h |-> [h EXCEPT !.lastGestureDetectionStatus = h.isGestureDetected],
          statusCb |-> <<h.isGestureDetected>>]
    ELSE [h |-> h, statusCb |-> <<>>]

\* a no-pose branch that gives up on either condition alone
poseMissedEither(h) ==
    LET hist == PushBounded(h.recentDetectionHistory, FALSE, detectionHistorySize)
        count == h.poseDetectionFailureCount + 1
        lowRate == 5 * CountTrue(hist) < Len(hist)
    IN [h EXCEPT !.poseDetectionFailureCount = count,
                 !.recentDetectionHistory = hist,
                 !.isGestureDetected =
                     IF count >= maxFailureCount \/ lowRate THEN FALSE
                     ELSE h.isGestureDetected]

\* the branch for a frame without landmarks
\* a miss that is counted but not recorded in the detection window
poseMissedUnrecorded(h) ==
    LET hist == h.recentDetectionHistory
        count == h.poseDetectionFailureCount + 1
        lowRate == 5 * CountTrue(hist) < Len(hist)
    IN [h EXCEPT !.poseDetectionFailureCount = count,
                 !.isGestureDetected =
                     IF count >= maxFailureCount /\ lowRate THEN FALSE
                     ELSE h.isGestureDetected]

poseMissed(h) ==
    LET hist == PushBounded(h.recentDetectionHistory, FALSE, detectionHistorySize)
        count == h.poseDetectionFailureCount + 1
        \* recentSuccessRate < 0.2
        lowRate == 5 * CountTrue(hist) < Len(hist)
    IN [h EXCEPT !.poseDetectionFailureCount = count,
                 !.recentDetectionHistory = hist,
                 !.isGestureDetected =
                     IF count >= maxFailureCount /\ lowRate THEN FALSE
                     ELSE h.isGestureDetected]

\* a pose branch that leaves the failure counter as it is
poseSeenKeepCount(h) ==
    [h EXCEPT !.isGestureDetected = TRUE,
              !.recentDetectionHistory =
                  PushBounded(h.recentDetectionHistory, TRUE, detectionHistorySize)]

\* the first statements of the branch for a frame with landmarks
poseSeen(h) ==
    [h EXCEPT !.poseDetectionFailureCount = 0,
              !.isGestureDetected = TRUE,
              !.recentDetectionHistory =
                  PushBounded(h.recentDetectionHistory, TRUE, detectionHistorySize)]

\* the end of a frame that was not consumed by calibration: the status
\* check (n is its outcome) and frameCounter++; d is the frame's report
endFrame(n, d, g) ==
    [h |-> [n.h EXCEPT !.frameCounter = n.h.frameCounter + 1],
     game |-> IF n.statusCb # <<>>
              THEN onGestureStatusChangeCallback(g, n.statusCb[1])
              ELSE g,
     path |-> d.path, cmds |-> d.cmds, timer |-> d.timer,
     action |-> d.action, cont |-> d.cont, step |-> d.step,
     statusCb |-> n.statusCb, calibCb |-> FALSE]

\* a frame consumed by calibration returns early: neither the status check
\* nor frameCounter++ is reached; c is the outcome of calibrateBaseline
calibrationFrame(c, g) ==
    [h |-> [c.h EXCEPT !.calibrationFrames = c.h.calibrationFrames + 1],
     game |-> IF c.cb THEN onCalibrationComplete(g) ELSE g,
     path |-> "calibrate", cmds |-> <<>>, timer |-> FALSE,
     action |-> "", cont |-> FALSE, step |-> NoStep,
     statusCb |-> <<>>, calibCb |-> c.cb]

gestureFrame(d, g) == endFrame(notifyStatus(d.h), d, g)

\* a calibration gate that opens one frame early
isCalibratingShort(h) == h.calibrationFrames < maxCalibrationFrames - 1

\* the frame still belongs to calibration
isCalibrating(h) == h.calibrationFrames < maxCalibrationFrames

\* the branch for a frame with landmarks, after its first statements
poseFrame(h, results, t, g, mv) ==
    IF isCalibrating(h)
    THEN calibrationFrame(calibrateBaseline(h, results), g)
    ELSE gestureFrame(detectHandGestures(h, results, t, g, mv), g)

\* the whole handler: the new engine and game, and what the frame did
onResults(h, results, t, g, mv) ==
    IF results.pose
    THEN poseFrame(poseSeen(h), results, t, g, mv)
    ELSE endFrame(notifyStatus(poseMissed(h)),
                  Report(h, "nopose", <<>>, FALSE, "", FALSE, NoStep), g)

(***************************************************************************)
(* The person in front of the camera.                                      *)
(*   body   "full": all landmarks; "nowrist": the wrists are missing;      *)
(*          "noshoulder": the left shoulder is missing; "none": no pose    *)
(*   head   "still" or "shake": a shaking head shows the nose alternately  *)
(*          at x = 0.40 and x = 0.50                                       *)
(*   left   "down", "up", or "shift": up with the wrist moved sideways     *)
(*   right  "down" or "up"                                                 *)
(*   seen   the wrists' visibility score is high                           *)
(*   nx     the nose x of the last frame shown                             *)
(***************************************************************************)
Bodies == {"full", "nowrist", "noshoulder", "none"}
Heads == {"still", "shake"}
Lefts == {"down", "up", "shift"}
Rights == {"down", "up"}

Poses == [body : Bodies, head : Heads, left : Lefts, right : Rights, seen : BOOLEAN]

PoseOf(u) == [body |-> u.body, head |-> u.head, left |-> u.left,
              right |-> u.right, seen |-> u.seen]

ShoulderY == 50
WristDownY == 70
WristUpY == 30
LeftWristX == 30
LeftShiftX == 52
RightWristX == 70
NoseY == 30
NoseLeftX == 40
NoseRightX == 50
SeenVisibility == 90
UnseenVisibility == 30

\* the nose x the next frame shows
NextNoseX(u) ==
    IF u.head = "shake"
    THEN (IF u.nx = NoseLeftX THEN NoseRightX ELSE NoseLeftX)
    ELSE u.nx

\* the frame the camera delivers of the person
Frame(u) ==
    IF u.body = "none" THEN NoPose
    ELSE LET vis == IF u.seen THEN SeenVisibility ELSE UnseenVisibility
             lw == Pt(IF u.left = "shift" THEN LeftShiftX ELSE LeftWristX,
                      IF u.left = "down" THEN WristDownY ELSE WristUpY, vis)
             rw == Pt(RightWristX,
                      IF u.right = "down" THEN WristDownY ELSE WristUpY, vis)
         IN Sample(Pt(NextNoseX(u), NoseY, 100),
                   IF u.body = "noshoulder" THEN NoPt ELSE Pt(40, ShoulderY, 100),
                   Pt(60, ShoulderY, 100),
                   IF u.body = "nowrist" THEN NoPt ELSE lw,
                   IF u.body = "nowrist" THEN NoPt ELSE rw)

(***************************************************************************)
(* What a step reports (out) and the history the properties use (obs).     *)
(*   out.op       "onResults" after a frame, else the name of the step     *)
(*   out.path     the path the frame took through onResults                *)
(*   out.cmds     the calls the frame made on the game, in order           *)
(*   out.action   the action the frame selected, out.cont whether it was   *)
(*                executed in continuous mode                              *)
(*   out.step     the Fast-Drop Controller as the drop step found it       *)
(*   out.running, out.piece   the game as the frame read it                *)
(*   obs.moves    the events of the environment so far                     *)
(*   obs.sessions, sessionFrames, sessionDetect, sessionCmds               *)
(*                the calibration session: resets so far, pose frames      *)
(*                received, detectHandGestures has run, a command was sent *)
(*   obs.rotEdge  the frame's sample shows Both-Hands-Up and the previous  *)
(*                sample did not; obs.prevRot the last sample showed it    *)
(*   obs.leftUpSince, rightUpSince   time of the first sample of the       *)
(*                current stretch of samples showing the hand up (0: down) *)
(*   obs.edgeAt, edgeDir   the last single-hand edge the engine acted on,  *)
(*                while that hand stays up                                 *)
(*   obs.entered  the direction whose continuous mode the frame entered    *)
(*   obs.exitAt   time of the last frame that left continuous mode         *)
(*   obs.contAt, contGap   time of the last continuous-repeat command and  *)
(*                the gap between the last two while a hand stays up       *)
(*   obs.dropAt, dropGap   the same for fast-drop steps                    *)
(*   obs.changeTo, changeSeen   the piece that replaced the bound piece    *)
(*                while the controller was armed, and the time of the      *)
(*                first frame that tracked pieces after the change         *)
(*   obs.shakeSince   time of the frame that confirmed the current shaking *)
(*   out.move     the answer of movePiece(0, 1) when the frame called it   *)
(*   out.lacking  the sample has landmarks but lacks a calibration point   *)
(*   out.missing  the sample has landmarks but lacks one of the five       *)
(*                points of gesture recognition                            *)
(*   obs.wasArmed, detectedBefore, failuresBefore, framesBefore            *)
(*                isFastDropTriggered, isGestureDetected,                  *)
(*                poseDetectionFailureCount and calibrationFrames as the   *)
(*                frame found them                                         *)
(*   obs.headFrames   frames pushed onto the head window since it was      *)
(*                empty; obs.alternated: every frame since then was pushed *)
(*                and its nose x alternated between the two positions      *)
(*   obs.steadySince  time of the first frame of the current run of        *)
(*                SteadyFrame frames on one piece (obs.steadyPiece), 0     *)
(*                when the last frame was not one                          *)
(*   obs.lastStatus   the value of the last status-changed invocation;     *)
(*                obs.statusRepeated: the frame's invocation repeated it   *)
(*   obs.sessionCalibCbs   calibration-complete invocations of the session *)
(*   obs.sumsChanged  the frame changed a baseline sum                     *)
(*   out.stale    the timer that ran was set before the last reset         *)
(*   obs.resetAt  time of the last resetCalibration (0: none)              *)
(*   obs.sessionSamples   samples calibrateBaseline accumulated this       *)
(*                session                                                  *)
(*   obs.failedAt, failedBefore   time of the last refused fast-drop step, *)
(*                after and before the frame                               *)
(*   obs.edgeCmdAt, edgeCmdGap   time of the last edge-triggered move      *)
(*                dispatched and the gap between the last two              *)
(*   obs.driving, wasDriving   the hand whose hold drives continuous mode  *)
(*                ("": continuous mode is off), after and before the frame *)
(*   obs.gestureKept   the frame left every gesture field of the engine as *)
(*                it was and scheduled no timer; obs.handsKept: the same   *)
(*                but for the head window and the shake state              *)
(*   obs.fifo     every window that received a sample in the frame holds   *)
(*                its former entries in order, less the oldest if it was   *)
(*                full, followed by the sample                             *)
(*   obs.cooling  the frame came less than the action cooldown after the   *)
(*                last action the engine had recorded                      *)
(*   obs.camPaused, camWasPaused   a detected=false notification paused    *)
(*                the game and no pause button, game start or resume has   *)
(*                come since; after and before the frame                   *)
(*   obs.clicks   the button presses so far                                *)
(*   obs.headUpdated   the frame pushed its nose onto the head window and  *)
(*                ran detectHeadShake on it                                *)
(***************************************************************************)
Idle(op) ==
    [op |-> op, path |-> "", cmds |-> <<>>, action |-> "", cont |-> FALSE,
     step |-> NoStep, statusCb |-> <<>>, calibCb |-> FALSE, running |-> FALSE,
     piece |-> 0, move |-> "", lacking |-> FALSE, stale |-> FALSE,
     missing |-> FALSE]

\* the history at the start of a calibration session
NewSession(o) ==
    [o EXCEPT !.sessions = @ + 1, !.sessionFrames = 0,
              !.sessionDetect = FALSE, !.sessionCmds = FALSE,
              !.sessionCalibCbs = 0, !.headFrames = 0, !.alternated = TRUE,
              !.sessionSamples = 0]

InitObs ==
    [moves |-> 0, sessions |-> 0, sessionFrames |-> 0, sessionDetect |-> FALSE,
     sessionCmds |-> FALSE, rotEdge |-> FALSE, prevRot |-> FALSE,
     leftUpSince |-> 0, rightUpSince |-> 0, edgeAt |-> 0, edgeDir |-> "",
     entered |-> "", exitAt |-> 0, contAt |-> 0, contGap |-> 0,
     dropAt |-> 0, dropGap |-> 0, changeTo |-> 0, changeSeen |-> 0,
     shakeSince |-> 0, wasArmed |-> FALSE, headFrames |-> 0, alternated |-> TRUE,
     detectedBefore |-> FALSE, failuresBefore |-> 0, lastStatus |-> "none",
     statusRepeated |-> FALSE, sessionCalibCbs |-> 0, framesBefore |-> 0,
     sumsChanged |-> FALSE, resetAt |-> 0, sessionSamples |-> 0, failedAt |-> 0,
     failedBefore |-> 0, edgeCmdAt |-> 0, edgeCmdGap |-> 0, driving |-> "",
     wasDriving |-> "", gestureKept |-> TRUE, handsKept |-> TRUE,
     headUpdated |-> FALSE, fifo |-> TRUE, cooling |-> FALSE,
     camPaused |-> FALSE, camWasPaused |-> FALSE, clicks |-> 0,
     steadySince |-> 0, steadyPiece |-> 0]

\* the sample has landmarks but not all three calibration points
LacksCalibrationPoint(results) ==
    /\ results.pose
    /\ \/ ~results.leftShoulder.present \/ ~results.rightShoulder.present
       \/ ~results.nose.present

\* the frame pushed its nose position onto the head window
PushedHead(r) == r.path \in {"debugthrow", "full", "threw"}

\* the frame was handed to detectHandGestures and left it before the head
\* window was updated
SkippedHead(r) == r.path \in {"nobaseline", "cooldown", "missing"}

\* the nose of the sample continues the alternation of the head window
Alternates(h, results) ==
    /\ results.nose.x \in {NoseLeftX, NoseRightX}
    /\ h.headHistory # <<>> => results.nose.x # h.headHistory[Len(h.headHistory)].x

\* the value of a status-changed invocation, as the history keeps it
StatusName(b) == IF b THEN "true" ELSE "false"

\* the sample shows the hand raised
SampleUp(results, hand) ==
    /\ results.pose /\ hasKeyLandmarks(results)
    /\ IF hand = "left" THEN isHandUp(results.leftShoulder, results.leftWrist)
       ELSE isHandUp(results.rightShoulder, results.rightWrist)

\* the sample shows the hand lowered
SampleDown(results, hand) ==
    /\ results.pose /\ hasKeyLandmarks(results)
    /\ ~SampleUp(results, hand)

\* the sample shows Both-Hands-Up
SampleRot(results) ==
    results.pose /\ hasKeyLandmarks(results) /\ shouldRotate(results)

\* the start of the stretch of samples showing the hand up
UpSince(since, results, hand, t) ==
    IF SampleUp(results, hand) THEN (IF since = 0 THEN t ELSE since)
    ELSE IF SampleDown(results, hand) THEN 0
    ELSE since

\* the engine b with the detection hysteresis and the frame counter of a:
\* what is left to differ are the fields of gesture recognition
GestureFieldsOf(a, b) ==
    [b EXCEPT !.isGestureDetected = a.isGestureDetected,
              !.lastGestureDetectionStatus = a.lastGestureDetectionStatus,
              !.poseDetectionFailureCount = a.poseDetectionFailureCount,
              !.recentDetectionHistory = a.recentDetectionHistory,
              !.frameCounter = a.frameCounter]

\* the engine b with the head window and shake state of a
HeadFieldsOf(a, b) ==
    [b EXCEPT !.headHistory = a.headHistory,
              !.isHeadShaking = a.isHeadShaking,
              !.consecutiveShakeFrames = a.consecutiveShakeFrames]

\* the window new is the window old of capacity cap after it received e:
\* the oldest entry has left a full window, the order is kept
Received(old, new, e, cap) ==
    new = (IF Len(old) >= cap THEN Tail(old) ELSE old) \o <<e>>

\* the frame acted on a single-hand edge
IsEdge(r) == r.path = "full" /\ r.action \in {"left", "right"} /\ ~r.cont

\* the frame dispatched a continuous-repeat command
IsRepeat(r) == r.path = "full" /\ r.cont /\ r.action \in {"left", "right"}
               /\ r.cmds # <<>> /\ r.cmds[Len(r.cmds)] = r.action

\* the frame dispatched an edge-triggered single-hand move
IsEdgeCmd(r) == IsEdge(r) /\ r.cmds # <<>> /\ r.cmds[Len(r.cmds)] = r.action

\* the frame dispatched a fast-drop step
IsDrop(r) == r.cmds # <<>> /\ r.cmds[1] = "drop"

\* the frame ran the piece tracking
Tracked(r) == r.path \in {"full", "threw"}

\* the frame keeps the conditions of a sustained fast drop: the sample has
\* the five points and is not discarded, shaking is confirmed after it, the
\* game runs with a piece that moves down when asked, no hand action
SteadyFrame(h, g, r, mv) ==
    /\ PushedHead(r) /\ r.h.isHeadShaking
    /\ g.gameRunning /\ g.currentPiece # 0
    /\ r.action = ""
    /\ IsDrop(r) => mv = "true"

\* the history after a frame: h and g are the engine and the game before it,
\* r the outcome of onResults at time t, mv the answer of movePiece(0, 1)
ObsAfterFrame(o, h, g, results, r, t, mv) ==
    [moves |-> IF IsDrop(r) /\ mv # "true" THEN o.moves + 1 ELSE o.moves,
     sessionFrames |-> IF results.pose THEN o.sessionFrames + 1 ELSE o.sessionFrames,
     sessionDetect |-> o.sessionDetect \/ r.path \notin {"calibrate", "nopose"},
     sessionCmds |-> o.sessionCmds \/ r.cmds # <<>>,
     rotEdge |-> SampleRot(results) /\ ~o.prevRot,
     prevRot |-> SampleRot(results),
     leftUpSince |-> UpSince(o.leftUpSince, results, "left", t),
     rightUpSince |-> UpSince(o.rightUpSince, results, "right", t),
     edgeAt |-> IF IsEdge(r) THEN t
                  ELSE IF o.edgeDir # "" /\ SampleDown(results, o.edgeDir) THEN 0
                  ELSE o.edgeAt,
     edgeDir |-> IF IsEdge(r) THEN r.action
                   ELSE IF o.edgeDir # "" /\ SampleDown(results, o.edgeDir) THEN ""
                   ELSE o.edgeDir,
     entered |-> IF r.h.isInContinuousMode /\ ~h.isInContinuousMode
                   THEN r.action ELSE "",
     exitAt |-> IF h.isInContinuousMode /\ ~r.h.isInContinuousMode THEN t ELSE o.exitAt,
     contAt |-> IF IsRepeat(r) THEN t
                  ELSE IF SampleDown(results, "left") /\ SampleDown(results, "right")
                  THEN 0
                  ELSE o.contAt,
     contGap |-> IF IsRepeat(r) /\ o.contAt > 0 THEN t - o.contAt ELSE o.contGap,
     dropAt |-> IF IsDrop(r) THEN t ELSE o.dropAt,
     dropGap |-> IF IsDrop(r) /\ o.dropAt > 0 THEN t - o.dropAt ELSE o.dropGap,
     changeSeen |-> IF o.changeTo # 0 /\ o.changeSeen = 0 /\ Tracked(r)
                      THEN t ELSE o.changeSeen,
     shakeSince |-> IF r.h.isHeadShaking
                      THEN (IF h.isHeadShaking THEN o.shakeSince ELSE t)
                      ELSE 0,
     wasArmed |-> h.isFastDropTriggered,
     headFrames |-> IF PushedHead(r) THEN o.headFrames + 1 ELSE o.headFrames,
     alternated |-> IF PushedHead(r) THEN o.alternated /\ Alternates(h, results)
                      ELSE IF SkippedHead(r) THEN FALSE
                      ELSE o.alternated,
     detectedBefore |-> h.isGestureDetected,
     failuresBefore |-> h.poseDetectionFailureCount,
     lastStatus |-> IF r.statusCb # <<>> THEN StatusName(r.statusCb[1]) ELSE o.lastStatus,
     statusRepeated |-> r.statusCb # <<>> /\ StatusName(r.statusCb[1]) = o.lastStatus,
     sessionCalibCbs |-> IF r.calibCb THEN o.sessionCalibCbs + 1 ELSE o.sessionCalibCbs,
     framesBefore |-> h.calibrationFrames,
     sumsChanged |-> \/ r.h.baselineLeftShoulder # h.baselineLeftShoulder
                       \/ r.h.baselineRightShoulder # h.baselineRightShoulder
                       \/ r.h.baselineNose # h.baselineNose,
     sessionSamples |-> IF r.path = "calibrate" /\ ~LacksCalibrationPoint(results)
                          THEN o.sessionSamples + 1 ELSE o.sessionSamples,
     failedAt |-> IF IsDrop(r) /\ mv = "false" THEN t ELSE o.failedAt,
     failedBefore |-> o.failedAt,
     edgeCmdAt |-> IF IsEdgeCmd(r) THEN t ELSE o.edgeCmdAt,
     edgeCmdGap |-> IF IsEdgeCmd(r) /\ o.edgeCmdAt > 0 THEN t - o.edgeCmdAt ELSE o.edgeCmdGap,
     driving |-> IF ~r.h.isInContinuousMode THEN ""
                   ELSE IF r.cont /\ r.action \in {"left", "right"} THEN r.action
                   ELSE o.driving,
     wasDriving |-> o.driving,
     gestureKept |-> GestureFieldsOf(h, r.h) = h /\ ~r.timer,
     handsKept |-> HeadFieldsOf(h, GestureFieldsOf(h, r.h)) = h /\ ~r.timer,
     fifo |->
           /\ Received(h.recentDetectionHistory, r.h.recentDetectionHistory,
                       results.pose, detectionHistorySize)
           /\ PushedHead(r) =>
                 Received(h.headHistory, r.h.headHistory,
                          [x |-> results.nose.x, y |-> results.nose.y],
                          headHistorySize)
           /\ Tracked(r) =>
                 /\ Received(h.leftHandHistory, r.h.leftHandHistory,
                             [x |-> results.leftWrist.x, y |-> results.leftWrist.y],
                             handHistorySize)
                 /\ Received(h.rightHandHistory, r.h.rightHandHistory,
                             [x |-> results.rightWrist.x, y |-> results.rightWrist.y],
                             handHistorySize),
     cooling |-> t - h.lastActionTime < actionCooldown,
     camPaused |-> IF r.statusCb = <<FALSE>> /\ g.gameRunning /\ ~r.game.gameRunning
                     THEN TRUE
                     ELSE IF r.game.gameRunning /\ ~g.gameRunning THEN FALSE
                     ELSE o.camPaused,
     camWasPaused |-> o.camPaused,
     steadySince |-> IF SteadyFrame(h, g, r, mv)
                       THEN (IF o.steadySince > 0 /\ g.currentPiece = o.steadyPiece
                             THEN o.steadySince ELSE t)
                       ELSE 0,
     steadyPiece |-> IF SteadyFrame(h, g, r, mv) THEN g.currentPiece ELSE 0,
     headUpdated |->
           /\ results.pose /\ h.frameCounter % debugFramePeriod = 0
           /\ r.h.headHistory = updateHeadHistory(h, results.nose).headHistory
           /\ LET d == detectHeadShake(updateHeadHistory(h, results.nose))
              IN /\ r.h.isHeadShaking = d.isHeadShaking
                 /\ r.h.consecutiveShakeFrames = d.consecutiveShakeFrames,
     sessions |-> o.sessions,
     changeTo |-> o.changeTo,
     resetAt |-> o.resetAt,
     clicks |-> o.clicks]

\* the history after the game changed its piece: the change is recorded when
\* the controller is armed and bound to the piece that was replaced
ObsAfterPiece(o, h, g, id) ==
    IF h.isFastDropTriggered /\ g.currentPiece # 0
       /\ h.fastDropPieceId = g.currentPiece
    THEN [o EXCEPT !.moves = @ + 1, !.changeTo = id, !.changeSeen = 0]
    ELSE [o EXCEPT !.moves = @ + 1]

(***************************************************************************)
(* Initial states: a HandControl just constructed, a game not yet started, *)
(* a person in one of the poses P.                                         *)
(***************************************************************************)
InitWith(P) ==
    /\ hc = constructor
    /\ game = [gameRunning |-> FALSE, currentPiece |-> 0, lastId |-> 0,
               isPausedByCamera |-> FALSE]
    /\ now = StartTime
    /\ timers = {}
    /\ \E p \in P : user = [body |-> p.body, head |-> p.head, left |-> p.left,
                            right |-> p.right, seen |-> p.seen, nx |-> NoseRightX]
    /\ out = Idle("init")
    /\ obs = InitObs

(***************************************************************************)
(* Actions.                                                                *)
(***************************************************************************)
\* the state after a frame: r is the outcome of onResults at time t
Deliver(r, results, t, mv) ==
    /\ now' = t
    /\ hc' = r.h
    /\ game' = r.game
    /\ timers' = IF r.timer THEN timers \cup {t + actionCooldown} ELSE timers
    /\ user' = [user EXCEPT !.nx = IF results.pose THEN results.nose.x ELSE @]
    /\ out' = [op |-> "onResults", path |-> r.path, cmds |-> r.cmds,
               action |-> r.action, cont |-> r.cont, step |-> r.step,
               statusCb |-> r.statusCb, calibCb |-> r.calibCb,
               running |-> game.gameRunning, piece |-> game.currentPiece,
               move |-> IF IsDrop(r) THEN mv ELSE "",
               lacking |-> LacksCalibrationPoint(results), stale |-> FALSE,
               missing |-> results.pose /\ ~hasKeyLandmarks(results)]
    /\ obs' = ObsAfterFrame(obs, hc, game, results, r, t, mv)

\* the camera delivers the next frame, FramePeriod after the last one; the
\* clock is not advanced past StartTime + limit.  A drop step that the game
\* refuses or that throws is one of the events of the environment, of which
\* there are at most budget.
OnResults(mv, limit, budget) ==
    /\ now + FramePeriod <= StartTime + limit
    /\ mv = "true" \/ obs.moves < budget
    /\ \A d \in timers : now + FramePeriod <= d + MaxTimerLag
    /\ Deliver(onResults(hc, Frame(user), now + FramePeriod, game, mv),
               Frame(user), now + FramePeriod, mv)

\* a deferred lastAction clear runs: it is due before the next frame
TimerFire ==
    \E d \in timers :
       /\ d <= now + FramePeriod
       /\ timers' = timers \ {d}
       /\ hc' = [hc EXCEPT !.lastAction = ""]
       /\ out' = [Idle("timer") EXCEPT
                     !.stale = obs.resetAt > 0 /\ d - actionCooldown <= obs.resetAt]
       /\ UNCHANGED <<game, now, user, obs>>

\* startCamera resets the calibration
ResetCalibration ==
    /\ obs.moves < MaxMoves
    /\ hc' = resetCalibration(hc)
    /\ out' = Idle("resetCalibration")
    /\ obs' = [NewSession(obs) EXCEPT !.moves = @ + 1, !.resetAt = now,
                                      !.framesBefore = hc.calibrationFrames]
    /\ UNCHANGED <<game, now, timers, user>>

\* the game places the current piece: its onPiecePlaced callback runs
\* resetDropSpeed, and the next piece comes into play
PiecePlaced ==
    /\ obs.moves < MaxMoves
    /\ game.gameRunning /\ game.currentPiece # 0
    /\ game.lastId < MaxPieces
    /\ hc' = resetDropSpeed(hc)
    /\ game' = [game EXCEPT !.currentPiece = game.lastId + 1,
                            !.lastId = game.lastId + 1]
    /\ out' = Idle("piecePlaced")
    /\ obs' = ObsAfterPiece(obs, hc, game, game.lastId + 1)
    /\ UNCHANGED <<now, timers, user>>

\* the game replaces the piece in play without reporting a placement
NewPiece ==
    /\ obs.moves < MaxMoves
    /\ game.currentPiece # 0
    /\ game.lastId < MaxPieces
    /\ game' = [game EXCEPT !.currentPiece = game.lastId + 1,
                            !.lastId = game.lastId + 1]
    /\ out' = Idle("newPiece")
    /\ obs' = ObsAfterPiece(obs, hc, game, game.lastId + 1)
    /\ UNCHANGED <<hc, now, timers, user>>

\* the pause button: tetrisGame.pause() and the camera pause flag cleared
PauseButton ==
    /\ obs.moves < MaxMoves
    /\ game.gameRunning
    /\ game' = [tetrisPause(game) EXCEPT !.isPausedByCamera = FALSE]
    /\ out' = Idle("pause")
    /\ obs' = [obs EXCEPT !.moves = @ + 1, !.camPaused = FALSE]
    /\ UNCHANGED <<hc, now, timers, user>>

\* the start button
StartButton ==
    /\ obs.moves < MaxMoves
    /\ ~game.gameRunning
    /\ game' = startGameAutomatically(game)
    /\ out' = Idle("start")
    /\ obs' = [obs EXCEPT !.moves = @ + 1, !.camPaused = FALSE]
    /\ UNCHANGED <<hc, now, timers, user>>

\* the person changes pose, to one of the poses P
UserMove(P) ==
    /\ obs.moves < MaxMoves
    /\ \E p \in P :
          /\ p # PoseOf(user)
          /\ user' = [body |-> p.body, head |-> p.head, left |-> p.left,
                      right |-> p.right, seen |-> p.seen, nx |-> user.nx]
    /\ obs' = [obs EXCEPT !.moves = @ + 1]
    /\ out' = Idle("userMove")
    /\ UNCHANGED <<hc, game, now, timers>>

\* the person moves one hand, to one of the poses P, no more than once
\* between two steps of the program; the wrists may come into view or leave
\* it with the movement
HandMove(P, budget) ==
    /\ obs.moves < budget
    /\ out.op # "handMove"
    /\ \E p \in P :
          /\ (p.left # user.left) # (p.right # user.right)
          /\ user' = [body |-> p.body, head |-> p.head, left |-> p.left,
                      right |-> p.right, seen |-> p.seen, nx |-> user.nx]
    /\ obs' = [obs EXCEPT !.moves = @ + 1]
    /\ out' = Idle("handMove")
    /\ UNCHANGED <<hc, game, now, timers>>

\* the person changes pose, to one of the poses P, at most budget times
PoseChange(P, budget) ==
    /\ obs.moves < budget
    /\ \E p \in P :
          /\ p # PoseOf(user)
          /\ user' = [body |-> p.body, head |-> p.head, left |-> p.left,
                      right |-> p.right, seen |-> p.seen, nx |-> user.nx]
    /\ obs' = [obs EXCEPT !.moves = @ + 1]
    /\ out' = Idle("poseChange")
    /\ UNCHANGED <<hc, game, now, timers>>

\* the pause button, pressed while the game runs or stands paused (it is
\* disabled before the first start), at most budget presses of any button
PauseClick(budget) ==
    /\ obs.clicks < budget
    /\ game.lastId > 0
    /\ game' = [tetrisPause(game) EXCEPT !.isPausedByCamera = FALSE]
    /\ out' = Idle("pauseClick")
    /\ obs' = [obs EXCEPT !.clicks = @ + 1, !.camPaused = FALSE]
    /\ UNCHANGED <<hc, now, timers, user>>

\* the start button, pressed while the game stands still
StartClick(budget) ==
    /\ obs.clicks < budget
    /\ ~game.gameRunning
    /\ game' = startGameAutomatically(game)
    /\ out' = Idle("startClick")
    /\ obs' = [obs EXCEPT !.clicks = @ + 1, !.camPaused = FALSE]
    /\ UNCHANGED <<hc, now, timers, user>>

\* calibration has consumed its frames
Calibrated == hc.calibrationFrames >= maxCalibrationFrames

(***************************************************************************)
(* Calibration: the person and the left shoulder come and go, the left     *)
(* hand is raised, and the camera is restarted.                            *)
(***************************************************************************)
CalibrationPoses ==
    {p \in Poses : /\ p.body # "nowrist" /\ p.head = "still" /\ p.seen
                   /\ p.left = "up" /\ p.right = "down"}

InitCalibration == InitWith(CalibrationPoses)

NextCalibration ==
    \/ OnResults("true", CalibrationTime, MaxMoves)
    \/ TimerFire
    \/ ResetCalibration
    \/ UserMove(CalibrationPoses)

SpecCalibration == InitCalibration /\ [][NextCalibration]_vars

(***************************************************************************)
(* Sessions: the same, with all three calibration points in every sample   *)
(* that has a pose: the person comes and goes and the camera is restarted. *)
(***************************************************************************)
SessionPoses == {p \in CalibrationPoses : p.body # "noshoulder"}

InitSession == InitWith(SessionPoses)

NextSession ==
    \/ OnResults("true", CalibrationTime, MaxMoves)
    \/ TimerFire
    \/ ResetCalibration
    \/ UserMove(SessionPoses)

SpecSession == InitSession /\ [][NextSession]_vars

(***************************************************************************)
(* Hand gestures: a still head; the hands move once calibration is over,   *)
(* and the wrists may drop out of the sample while the hands are down.     *)
(***************************************************************************)
HandPoses ==
    {p \in Poses : /\ p.body \in {"full", "nowrist"} /\ p.head = "still"
                   /\ (p.body = "nowrist" =>
                          (p.left = "down" /\ p.right = "down" /\ p.seen))
                   /\ (p.left = "shift" => p.right = "down")
                   /\ (~p.seen => (p.left = "up" /\ p.right = "up"))}

InitHands == InitWith(HandPoses)

NextHands ==
    \/ OnResults("true", HandsTime, MaxMoves)
    \/ TimerFire
    \/ Calibrated /\ PauseButton
    \/ Calibrated /\ StartButton
    \/ Calibrated /\ UserMove(HandPoses)

SpecHands == InitHands /\ [][NextHands]_vars

(***************************************************************************)
(* Fast drop: the head shakes; once the shake is under way the head may    *)
(* stop, the left hand may be raised, the wrists may drop out of the       *)
(* sample, and the game changes pieces or is paused.                       *)
(***************************************************************************)
DropPoses ==
    {p \in Poses : /\ p.body \in {"full", "nowrist"} /\ p.seen
                   /\ p.left \in {"down", "up"} /\ p.right = "down"
                   /\ (p.body = "nowrist" =>
                          (p.left = "down" /\ p.head = "shake"))}

InitDrop == InitWith({p \in DropPoses : p.head = "shake" /\ p.body = "full"})

\* the environment is quiet until DropQuiet after the start, and then has
\* at most DropMoves events
Stirring == now >= StartTime + DropQuiet /\ obs.moves < DropMoves

NextDrop ==
    \/ \E mv \in MoveResults : OnResults(mv, DropTime, DropMoves)
    \/ TimerFire
    \/ Stirring /\ PiecePlaced
    \/ Stirring /\ NewPiece
    \/ Stirring /\ PauseButton
    \/ Stirring /\ UserMove(DropPoses)

SpecDrop == InitDrop /\ [][NextDrop]_vars

(***************************************************************************)
(* Held hands: a still head, all landmarks present; the hands are raised   *)
(* and lowered one at a time once calibration is over.                     *)
(***************************************************************************)
HoldPoses ==
    {p \in Poses : /\ p.body = "full" /\ p.head = "still"
                   /\ p.left \in {"down", "up"}}

InitHold == InitWith(HoldPoses)

NextHold ==
    \/ OnResults("true", HoldTime, HoldMoves)
    \/ TimerFire
    \/ Calibrated /\ HandMove(HoldPoses, HoldMoves)

SpecHold == InitHold /\ [][NextHold]_vars

(***************************************************************************)
(* Single-hand moves: a still head, all landmarks present; the pose        *)
(* changes once calibration is over.                                       *)
(***************************************************************************)
MovePoses ==
    {p \in Poses : /\ p.body = "full" /\ p.head = "still"
                   /\ (p.left = "shift" => p.right = "down")
                   /\ (~p.seen => (p.left = "up" /\ p.right = "up"))}

InitMoves == InitWith(MovePoses)

NextMoves ==
    \/ OnResults("true", MovesTime, MoveChanges)
    \/ TimerFire
    \/ Calibrated /\ PoseChange(MovePoses, MoveChanges)

SpecMoves == InitMoves /\ [][NextMoves]_vars

(***************************************************************************)
(* Camera pause: hands down, a still head; once calibration is over the    *)
(* person leaves the view and returns, and the pause and start buttons are *)
(* pressed.  No hand is raised, so no lastAction clear is ever pending.    *)
(***************************************************************************)
PausePoses ==
    {p \in Poses : /\ p.body \in {"full", "none"} /\ p.head = "still" /\ p.seen
                   /\ p.left = "down" /\ p.right = "down"}

InitPause == InitWith({p \in PausePoses : p.body = "full"})

NextPause ==
    \/ OnResults("true", PauseTime, PauseMoves)
    \/ Calibrated /\ PoseChange(PausePoses, PauseMoves)
    \/ Calibrated /\ PauseClick(PauseClicks)
    \/ Calibrated /\ StartClick(PauseClicks)

SpecPause == InitPause /\ [][NextPause]_vars

(***************************************************************************)
(* Properties.                                                             *)
(***************************************************************************)
\* the state follows a frame
AfterFrame == out.op = "onResults"

\* the state follows a frame that ran detectHandGestures
AfterGestures == AfterFrame /\ out.path \notin {"calibrate", "nopose"}

\* the frame dispatched the command it selected
Dispatched(action) == out.cmds # <<>> /\ out.cmds[Len(out.cmds)] = action

\* C1: a frame dispatches at most one command to the game: a fast-drop step
\* and a rotate or left/right move are never both dispatched in one cycle
C1_OneCommandPerCycle == Len(out.cmds) <= 1

\* C2: within a calibration session (from construction or resetCalibration
\* on) no command is dispatched and detectHandGestures is not run before the
\* session's 30 calibration frames have been consumed
C2_GatedByCalibration ==
    (obs.sessionDetect \/ obs.sessionCmds)
        => obs.sessionFrames > maxCalibrationFrames

\* a session begun by resetCalibration has run detectHandGestures and sent a
\* command
C2_Witness == obs.sessions > 0 /\ obs.sessionDetect /\ obs.sessionCmds

\* C3: a frame that finds the game not running calls neither movePiece nor
\* rotatePiece
C3_NotRunningNoCommand == (AfterFrame /\ ~out.running) => out.cmds = <<>>

\* the game is not running while the controller is armed and bound to the
\* current piece, and the frame selected a move
C3_Witness ==
    /\ AfterFrame /\ out.path = "full" /\ ~out.running
    /\ out.step.armed /\ out.step.bound = out.piece
    /\ out.action = "left"

\* C4: while Both-Hands-Up holds over consecutive cycles with the game
\* running, exactly one rotate is dispatched, on the first cycle on which
\* the condition holds
C4_RotateOnFirstCycle ==
    /\ (AfterGestures /\ out.running /\ obs.rotEdge) => Dispatched("rotate")
    /\ (AfterFrame /\ Dispatched("rotate")) => obs.rotEdge

\* C5: a single-hand edge dispatches one move in the hand's direction, and
\* while the hand stays up no second move in that direction is dispatched
\* until 800 ms after the edge
C5_OneMovePerEdge ==
    /\ (AfterFrame /\ IsEdge(out) /\ out.running) => Dispatched(out.action)
    /\ (AfterFrame /\ IsRepeat(out) /\ obs.edgeDir = out.action)
           => now - obs.edgeAt >= continuousMoveThreshold

\* C6: continuous mode is entered for a hand only when the hand has been up
\* for 800 ms, and after continuous mode was left no repeat move is
\* dispatched until a fresh 800 ms hold has elapsed
C6_ContinuousAfterHold ==
    /\ (AfterFrame /\ obs.entered = "left")
           => (obs.leftUpSince > 0
               /\ now - obs.leftUpSince >= continuousMoveThreshold)
    /\ (AfterFrame /\ obs.entered = "right")
           => (obs.rightUpSince > 0
               /\ now - obs.rightUpSince >= continuousMoveThreshold)
    /\ (AfterFrame /\ IsRepeat(out) /\ obs.exitAt > 0)
           => now - obs.exitAt >= continuousMoveThreshold

\* C7: two continuous-repeat moves dispatched while a hand is held up are at
\* least 120 ms apart
C7_RepeatSpacing == obs.contGap = 0 \/ obs.contGap >= continuousMoveInterval

\* C8: once the piece the armed controller is bound to has been replaced, no
\* fast-drop step is dispatched under the old binding, and none against the
\* new piece until 500 ms after the change was observed
C8_PieceChangeInvalidates ==
    (AfterFrame /\ IsDrop(out))
        => /\ out.step.bound = out.piece
           /\ out.piece = obs.changeTo
                  => (obs.changeSeen > 0
                      /\ now - obs.changeSeen >= fastDropTriggerDelay)

\* a fast-drop step is dispatched against the piece that replaced the bound
\* one
C8_Witness == AfterFrame /\ IsDrop(out) /\ out.piece = obs.changeTo

C10_DropSpacing ==
    /\ (AfterFrame /\ IsDrop(out))
           => (out.step.armed /\ out.step.bound = out.piece)
    /\ obs.dropGap = 0 \/ obs.dropGap >= fastDropInterval

\* C11: when movePiece throws during a fast-drop attempt, the frame is
\* processed to its end (the exception stays inside), and the controller
\* ends the frame disarmed with its binding cleared, so that no further
\* step is sent against that piece
C11_ThrowDisarms ==
    (AfterFrame /\ out.move = "throw") =>
        (out.path = "threw" /\ ~hc.isFastDropTriggered /\ hc.fastDropPieceId = 0)

\* C12: a fully processed cycle in which confirmed-shaking is false ends
\* with the controller disarmed, its binding cleared and its start
\* timestamp zero, and dispatches no fast-drop step
C12_NoShakeDisarms ==
    (AfterFrame /\ out.path = "full" /\ ~hc.isHeadShaking) =>
        /\ ~hc.isFastDropTriggered
        /\ hc.fastDropPieceId = 0
        /\ hc.fastDropStartTime = 0
        /\ ~out.step.armed
        /\ ~IsDrop(out)

\* the shaking stops in a fully processed cycle that found the controller
\* armed
C12_Witness ==
    AfterFrame /\ out.path = "full" /\ ~hc.isHeadShaking /\ obs.wasArmed

\* C13: when a fast-drop attempt returns false, the controller is disarmed
\* and its binding cleared within the same cycle
C13_FailedDropDisarms ==
    (AfterFrame /\ out.move = "false") =>
        (~hc.isFastDropTriggered /\ hc.fastDropPieceId = 0)

\* a cycle whose fast-drop attempt was refused by the game
C13_Witness ==
    AfterFrame /\ out.move = "false" /\ out.step.armed /\ out.step.bound = out.piece

\* C14 (as claimed): from an empty head window, with every frame processed
\* and the nose alternating between 0.40 and 0.50, confirmed-shaking is
\* false up to the 31st frame and true from the 32nd frame on
C14_ShakeOnFrame32 ==
    (AfterFrame /\ PushedHead(out) /\ obs.alternated) =>
        (hc.isHeadShaking <=> obs.headFrames >= headHistorySize + requiredShakeFrames)

\* C14 (amended): under the same conditions confirmed-shaking is false up
\* to the 30th frame and true from the 31st frame on: the 20th frame fills
\* the window and is the first of the 12 confirming frames
C14_ShakeOnFrame31 ==
    (AfterFrame /\ PushedHead(out) /\ obs.alternated) =>
        (hc.isHeadShaking <=>
            obs.headFrames >= headHistorySize + requiredShakeFrames - 1)

\* the 31st frame of an alternating head, with shaking confirmed
C14_Witness ==
    /\ AfterFrame /\ PushedHead(out) /\ obs.alternated
    /\ obs.headFrames = headHistorySize + requiredShakeFrames - 1
    /\ hc.isHeadShaking
    /\ hc.consecutiveShakeFrames = requiredShakeFrames

\* C15: a frame turns the detected status from true to false only when the
\* consecutive-failure count is at least 30 and fewer than 20% of the last
\* 10 recorded outcomes are successes; a single missed frame leaves it true
C15_SlowDecline ==
    /\ (AfterFrame /\ obs.detectedBefore /\ ~hc.isGestureDetected) =>
           /\ out.path = "nopose"
           /\ hc.poseDetectionFailureCount >= maxFailureCount
           /\ Len(hc.recentDetectionHistory) <= detectionHistorySize
           /\ 5 * CountTrue(hc.recentDetectionHistory) < Len(hc.recentDetectionHistory)
    /\ (AfterFrame /\ out.path = "nopose" /\ obs.detectedBefore
           /\ obs.failuresBefore = 0) => hc.isGestureDetected

\* the frame of the 30th consecutive miss turns the status to false
C15_Witness ==
    /\ AfterFrame /\ obs.detectedBefore /\ ~hc.isGestureDetected
    /\ hc.poseDetectionFailureCount = maxFailureCount

C17_StatusEdgesOnly == ~obs.statusRepeated

\* C18: a frame that changes the detected status relative to its value at
\* the end of the previous frame invokes the status-changed callback,
\* calibration frames included
C18_StatusChangeNotified ==
    (AfterFrame /\ hc.isGestureDetected # obs.detectedBefore) => out.statusCb # <<>>

\* C19: the calibration-complete callback is invoked at most once per
\* calibration session, on the frame that completes the 30th calibration
\* frame; later frames neither invoke it nor run calibration again
C19_CalibrationOnce ==
    /\ obs.sessionCalibCbs <= 1
    /\ (AfterFrame /\ out.calibCb) =>
           /\ out.path = "calibrate"
           /\ obs.framesBefore = maxCalibrationFrames - 1
           /\ hc.calibrationFrames = maxCalibrationFrames
    /\ (AfterFrame /\ obs.framesBefore >= maxCalibrationFrames) =>
           /\ ~out.calibCb
           /\ out.path # "calibrate"
           /\ ~obs.sumsChanged
           /\ hc.calibrationFrames = obs.framesBefore

\* a pose frame after the session's calibration completed and called back
C19_Witness ==
    /\ AfterFrame /\ out.path \notin {"nopose", "calibrate"}
    /\ obs.sessionCalibCbs = 1
    /\ obs.framesBefore = maxCalibrationFrames

\* C20: during calibration a pose sample that lacks the left shoulder, the
\* right shoulder or the nose changes neither the sums nor the calibration
\* frame count
C20_LackingSampleNoOp ==
    (AfterFrame /\ out.path = "calibrate" /\ out.lacking) =>
        (~obs.sumsChanged /\ hc.calibrationFrames = obs.framesBefore)

\* the session's calibration has completed: the baseline is the averaged one
\* and the calibration-complete callback was invoked
Completed ==
    /\ obs.sessionCalibCbs = 1
    /\ ~hc.baselineLeftShoulder.null /\ hc.baselineLeftShoulder.d = maxCalibrationFrames
    /\ ~hc.baselineRightShoulder.null /\ hc.baselineRightShoulder.d = maxCalibrationFrames
    /\ ~hc.baselineNose.null /\ hc.baselineNose.d = maxCalibrationFrames

\* C21: a calibration session in which complete samples keep arriving,
\* among lacking samples and frames without pose, eventually completes.
\* No frame calibrates once the frame count has reached 30 (C19), so the
\* session completes only if it has completed when the count reaches 30
C21_CalibrationCompletes ==
    hc.calibrationFrames >= maxCalibrationFrames => Completed

\* the baseline b is the mean of the n samples accumulated into it (b holds
\* the sums and the divisor)
MeanOver(b, n) ==
    /\ ~b.null /\ b.x * n = b.x * b.d /\ b.y * n = b.y * b.d /\ b.z * n = b.z * b.d

\* C22: when calibration completes each baseline coordinate is the mean over
\* exactly the samples accumulated, and a session that has received fewer
\* than 30 samples never completes
C22_BaselineIsMean ==
    /\ (AfterFrame /\ out.calibCb) =>
           /\ MeanOver(hc.baselineLeftShoulder, obs.sessionSamples)
           /\ MeanOver(hc.baselineRightShoulder, obs.sessionSamples)
           /\ MeanOver(hc.baselineNose, obs.sessionSamples)
    /\ obs.sessionCalibCbs > 0 => obs.sessionSamples >= maxCalibrationFrames

\* C23: resetCalibration is idempotent and complete: a second reset leaves
\* the state of the first, which has frame count 0, a null baseline, empty
\* head, hand and detection windows, both hands down, shake counter 0, the
\* fast drop disarmed, unbound and with start time 0, continuous mode off
\* with start time 0; the next pose frame is the first calibration frame
C23_ResetClears ==
    /\ out.op = "resetCalibration" =>
           /\ resetCalibration(hc) = hc
           /\ hc.calibrationFrames = 0
           /\ hc.baselineLeftShoulder.null /\ hc.baselineRightShoulder.null
           /\ hc.baselineNose.null
           /\ hc.headHistory = <<>> /\ hc.leftHandHistory = <<>>
           /\ hc.rightHandHistory = <<>> /\ hc.recentDetectionHistory = <<>>
           /\ hc.leftHandState = "down" /\ hc.rightHandState = "down"
           /\ hc.consecutiveShakeFrames = 0 /\ ~hc.isHeadShaking
           /\ ~hc.isFastDropTriggered /\ hc.fastDropPieceId = 0
           /\ hc.fastDropStartTime = 0
           /\ ~hc.isInContinuousMode /\ hc.continuousMoveStartTime = 0
    /\ (AfterFrame /\ out.path # "nopose" /\ obs.sessionFrames = 1) =>
           (out.path = "calibrate" /\ hc.calibrationFrames = 1)

\* a reset of an engine that had calibrated and filled its windows
C23_Witness ==
    /\ out.op = "resetCalibration"
    /\ obs.framesBefore = maxCalibrationFrames
    /\ obs.leftUpSince > 0
    /\ hc.calibrationFrames = 0 /\ hc.headHistory = <<>>

\* C24: after resetCalibration no timer set before the reset fires
C24_NoStaleTimer == out.op = "timer" => ~out.stale

\* C25: rotate and continuous-repeat ticks bypass the cooldown gate: a
\* Both-Hands-Up edge seen in a cycle that falls within 150 ms of a
\* non-continuous command dispatches rotate in that cycle, and no cycle is
\* stopped at the cooldown gate while continuous mode is on
C25_CooldownBypass ==
    /\ (AfterFrame /\ out.path = "cooldown" /\ out.running /\ obs.rotEdge) =>
           Dispatched("rotate")
    /\ (AfterFrame /\ out.path = "cooldown") => ~hc.isInContinuousMode

\* C26: after a refused fast-drop step has disarmed the controller, it is
\* not found armed and no step is attempted until a fresh qualification: a
\* start timestamp not older than the refusal, and 500 ms elapsed since
C26_NoRearmAfterFailure ==
    (AfterFrame /\ obs.failedBefore > 0 /\ (out.step.armed \/ IsDrop(out))) =>
        /\ out.step.start >= obs.failedBefore
        /\ now - out.step.start >= fastDropTriggerDelay

\* C30: after a cycle that passes the cooldown gate with all five points
\* present, each hand's state is up exactly when the sample shows it raised
\* by more than the threshold, and the previous-state fields hold the same
C30_HandStatesFollowSample ==
    (AfterFrame /\ out.path \in {"debugthrow", "full", "threw"}) =>
        /\ hc.leftHandState = "up" <=> obs.leftUpSince > 0
        /\ hc.rightHandState = "up" <=> obs.rightUpSince > 0
        /\ hc.lastLeftHandState = hc.leftHandState
        /\ hc.lastRightHandState = hc.rightHandState

\* the hand that drove continuous mode is down after the cycle
DriverDown ==
    \/ obs.wasDriving = "left" /\ hc.leftHandState = "down"
    \/ obs.wasDriving = "right" /\ hc.rightHandState = "down"

\* the hand that drove continuous mode is not stable over its last frames
DriverUnstable == obs.wasDriving # "" /\ ~isHandStable(hc, obs.wasDriving)

\* C27: a processed cycle that finds continuous mode on and in which the
\* driving hand is lowered or unstable, or Both-Hands-Up holds, ends with
\* the continuous flag false and the continuous start time cleared, whatever
\* the other hand does
C27_ContinuousExit ==
    (/\ AfterFrame /\ out.path = "full" /\ obs.wasDriving # ""
     /\ (DriverDown \/ DriverUnstable \/ hc.bothHandsVisible)) =>
        (~hc.isInContinuousMode /\ hc.continuousMoveStartTime = 0)

\* C28: move-left is dispatched, on an edge or as a continuous tick, only in
\* a cycle whose sample has the left hand up, the right hand down and no
\* Both-Hands-Up; move-right symmetrically, so that no move is dispatched
\* with both hands up
C28_MoveNeedsOneHand ==
    /\ (AfterFrame /\ Dispatched("left")) =>
          (/\ hc.leftHandState = "up" /\ hc.rightHandState = "down"
           /\ ~hc.bothHandsVisible)
    /\ (AfterFrame /\ Dispatched("right")) =>
          (/\ hc.rightHandState = "up" /\ hc.leftHandState = "down"
           /\ ~hc.bothHandsVisible)

\* a continuous move-left tick, the right hand lowered after both were up
C28_Witness ==
    /\ AfterFrame /\ Dispatched("left") /\ out.cont
    /\ hc.leftHandState = "up" /\ hc.rightHandState = "down"

\* C29: two edge-triggered single-hand moves are dispatched at least the
\* action cooldown (150 ms) apart
C29_EdgeMovesApart == obs.edgeCmdGap = 0 \/ obs.edgeCmdGap >= actionCooldown

\* a second edge-triggered move in the first cycle after the cooldown
C29_Witness ==
    AfterFrame /\ IsEdgeCmd(out) /\ obs.edgeCmdGap = actionCooldown

\* C31: a baseline field is non-null only once calibration has completed,
\* that is after 30 samples have been accumulated and averaged; before that
\* the three baselines are null
C31_BaselineNullUntilComplete ==
    (\/ ~hc.baselineLeftShoulder.null \/ ~hc.baselineRightShoulder.null
     \/ ~hc.baselineNose.null) =>
        (Completed /\ obs.sessionSamples = maxCalibrationFrames)

\* C32: a cycle after calibration whose sample lacks one of the five points
\* (nose, shoulders, wrists) changes no gesture state (windows, shake
\* counter, hand states, piece binding), schedules no timer and dispatches
\* no command
C32_MissingPointNoOp ==
    (AfterFrame /\ out.missing /\ out.path # "calibrate") =>
        (obs.gestureKept /\ out.cmds = <<>>)

\* the wrists are missing from the sample of a cycle that finds the
\* Fast-Drop Controller armed on the current piece of a running game
C32_Witness ==
    /\ AfterFrame /\ out.missing /\ out.path = "missing"
    /\ hc.isFastDropTriggered /\ hc.fastDropPieceId = out.piece /\ out.running
    /\ now - hc.lastFastDropTime >= fastDropInterval
    /\ Len(hc.headHistory) = headHistorySize

\* C33: the head window never holds more than 20 entries, a hand window
\* never more than 10 and the detection-outcome window never more than 10,
\* and a window that receives a sample keeps its entries in order, giving
\* up the oldest when it was full
C33_WindowsBounded ==
    /\ Len(hc.headHistory) <= headHistorySize
    /\ Len(hc.leftHandHistory) <= handHistorySize
    /\ Len(hc.rightHandHistory) <= handHistorySize
    /\ Len(hc.recentDetectionHistory) <= detectionHistorySize
    /\ AfterFrame => obs.fifo

\* a frame pushes onto three full windows: the head window has turned over
\* and its oldest and newest entries differ
C33_Witness ==
    /\ AfterFrame /\ out.path = "full"
    /\ obs.headFrames > headHistorySize
    /\ Len(hc.headHistory) = headHistorySize
    /\ hc.headHistory[1] # hc.headHistory[headHistorySize]
    /\ Len(hc.leftHandHistory) = handHistorySize
    /\ hc.leftHandHistory[1] # hc.leftHandHistory[handHistorySize]
    /\ Len(hc.recentDetectionHistory) = detectionHistorySize

\* the frame passed the baseline, cooldown and landmark checks of
\* detectHandGestures
PassedChecks == AfterFrame /\ out.path \in {"debugthrow", "full", "threw"}

\* C34: a cycle that passes the cooldown and landmark checks while the
\* frame counter is a multiple of 30 updates the head window and the shake
\* state and nothing else of the gesture state: hand windows, hand states,
\* previous-state fields, piece tracking and timers are as before, and no
\* command is dispatched
C34_DebugFrameAborts ==
    (PassedChecks /\ (hc.frameCounter - 1) % debugFramePeriod = 0) =>
        (obs.headUpdated /\ obs.handsKept /\ out.cmds = <<>>)

\* the frame counter is 60 and the cycle finds the Fast-Drop Controller
\* armed on the current piece of a running game, its sample showing a hand
\* state the engine has not recorded
C34_Witness ==
    /\ PassedChecks /\ hc.frameCounter = 2 * debugFramePeriod + 1
    /\ hc.isFastDropTriggered /\ hc.fastDropPieceId = out.piece /\ out.running
    /\ obs.leftUpSince > 0 /\ hc.leftHandState = "down"
    /\ ~obs.gestureKept

\* C35: a frame that comes less than 150 ms after a non-continuous command
\* is discarded before any gesture update: the windows, the shake counter,
\* the hand states and the piece tracking are as before, and no fast-drop
\* step or other command is dispatched, armed controller or not
C35_CooldownDiscards ==
    (AfterFrame /\ obs.cooling) => (obs.gestureKept /\ out.cmds = <<>>)

\* a frame within the cooldown finds the controller armed on the current
\* piece of a running game with a drop step due
C35_Witness ==
    /\ AfterFrame /\ obs.cooling /\ out.path = "cooldown"
    /\ hc.isFastDropTriggered /\ hc.fastDropPieceId = out.piece /\ out.running
    /\ now - hc.lastFastDropTime >= fastDropInterval
    /\ hc.isHeadShaking

\* C36: every action the frame selects reaches executeAction, whenever the
\* deferred clears of lastAction run: with the game running the selected
\* rotate or move is the command the frame dispatches
C36_SelectedIsExecuted ==
    (AfterFrame /\ out.path = "full" /\ out.action # "" /\ out.running) =>
        Dispatched(out.action)

\* the Fast-Drop Controller of the engine h is armed exactly when it is
\* bound to a piece
ArmedIffBound(h) == h.isFastDropTriggered <=> h.fastDropPieceId # 0

\* C37: in every state the Fast-Drop Controller is armed if and only if its
\* piece binding is non-null, and so it is after resetDropSpeed and after
\* resetCalibration, which leave it disarmed and unbound
C37_ArmedIffBound ==
    /\ ArmedIffBound(hc)
    /\ ~resetDropSpeed(hc).isFastDropTriggered /\ ArmedIffBound(resetDropSpeed(hc))
    /\ ~resetCalibration(hc).isFastDropTriggered
    /\ ArmedIffBound(resetCalibration(hc))

\* a frame found the controller armed and leaves it disarmed and unbound:
\* the game refused the drop step
C37_Witness ==
    /\ AfterFrame /\ obs.wasArmed /\ out.move = "false"
    /\ ~hc.isFastDropTriggered /\ hc.fastDropPieceId = 0

\* the frame's detected=true notification started the game
Resumed ==
    AfterFrame /\ out.statusCb = <<TRUE>> /\ ~out.running /\ game.gameRunning

\* the frame's detected=false notification stopped the game
CameraPaused ==
    AfterFrame /\ out.statusCb = <<FALSE>> /\ out.running /\ ~game.gameRunning

\* C38: a detected=true notification resumes the game only if a
\* detected=false notification paused it and no manual pause or game start
\* has cleared the paused-by-camera flag since; a detected=false
\* notification pauses the game only if it runs and is not already paused by
\* the camera.  The flag is set exactly while such a pause stands
C38_ResumeOnlyCameraPause ==
    /\ Resumed => obs.camWasPaused
    /\ CameraPaused => ~obs.camWasPaused
    /\ game.isPausedByCamera <=> obs.camPaused
    /\ game.isPausedByCamera => ~game.gameRunning

\* the person returns after the camera paused the game: the frame's
\* detected=true notification resumes it
C38_Witness == Resumed /\ obs.camWasPaused /\ ~game.isPausedByCamera

DropDeadline == fastDropTriggerDelay + 2 * FramePeriod

\* the step interval rounded up to a frame, and one frame lost likewise
DropGapMax == fastDropInterval + 2 * FramePeriod

C39_DropKeepsComing ==
    (AfterFrame /\ obs.steadySince > 0) =>
        /\ now - obs.steadySince >= DropDeadline =>
               obs.dropAt >= obs.steadySince
        /\ obs.dropAt >= obs.steadySince => now - obs.dropAt <= DropGapMax

C39_Witness ==
    /\ AfterFrame /\ obs.steadySince > 0
    /\ now - obs.steadySince >= DropDeadline + 2 * DropGapMax
    /\ Dispatched("drop") /\ out.move = "true"
    /\ obs.dropGap > fastDropInterval + FramePeriod
    /\ out.piece = obs.steadyPiece

====
